---- MODULE Spec2Model ----
(***************************************************************************)
(* Model of the detection engine of src/app.py: the /analyze handler and   *)
(* the detectors it calls (build_graph, detect_cycles, analyze_smurfing,   *)
(* detect_layered_shell, check_high_velocity, ring consolidation, scoring  *)
(* and the final sort).                                                    *)
(*                                                                         *)
(* Accounts are positive integers; their order stands for the order of the *)
(* account identifier strings.  A transaction record is                    *)
(* [sender, receiver, timestamp]; timestamps are whole hours.  The         *)
(* transaction_id and amount columns are carried by the program but read   *)
(* by no detector, and are left out.                                       *)
(***************************************************************************)
EXTENDS Integers, Sequences, FiniteSets, TLC

VARIABLES
    pc,                  \* "received": a request is parsed; "done": analyze returned
    txs,                 \* df: the rows of the request, in file order
    cycles,              \* analyze: cycles (list of lists)
    rings_info,          \* analyze: rings_info (fraud_rings of the response)
    ring_map,            \* analyze: ring_map (node -> ring_id)
    smurfing,            \* analyze: smurfing ({'fan_in': ..., 'fan_out': ...})
    shells,              \* analyze: shells
    velocity_suspects,   \* analyze: velocity_suspects
    suspicious_accounts, \* analyze: suspicious_accounts, after the sort
    runs,                \* number of requests analysed so far
    prev                 \* the previous request and its response (history)

vars == <<pc, txs, cycles, rings_info, ring_map, smurfing, shells,
          velocity_suspects, suspicious_accounts, runs, prev>>

----------------------------------------------------------------------------
(* Program constants *)

SCORE_CYCLE == 40
SCORE_FAN_IN == 25
SCORE_FAN_OUT == 25
SCORE_SHELL == 20
SCORE_HIGH_VELOCITY == 10
WINDOW_HOURS == 72          \* analyze_smurfing: window_hours
MIN_GROUP_ROWS == 10        \* analyze_smurfing: the pre-filter on len(group)
MIN_COUNTERPARTIES == 10    \* analyze_smurfing: unique senders or receivers
LIMIT_HOURS == 72           \* check_high_velocity: limit_hours
MIN_TX == 5                 \* check_high_velocity: min_tx
MAX_DEPTH == 5              \* dfs: the depth at which it returns
MIN_CYCLE_LEN == 3          \* dfs: 3 <= depth <= 5
MAX_CYCLE_LEN == 5
SHELL_MAX_TOTAL == 3
LEGIT_MIN_TOTAL == 20
K_CORE == 2

----------------------------------------------------------------------------
(* Bounds of the model *)

NumAccounts == 7      \* accounts of the graph inputs
MaxPermSet == 3       \* sets up to this size are iterated in every order
MaxRuns == 2          \* requests per behaviour
ExtraRows == 1        \* rows of a hub beyond the count a detector asks for
MaxBack == 3          \* rows of a high-volume hub against its main direction

----------------------------------------------------------------------------
(* Sequences *)

Range(s) == {s[i] : i \in DOMAIN s}

Min(S) == CHOOSE x \in S : \A y \in S : x <= y

MinOf(a, b) == IF a <= b THEN a ELSE b

Reverse(s) == [i \in 1..Len(s) |-> s[Len(s) + 1 - i]]

\* The elements of s at the indices I, order kept.
SubseqAt(s, I) ==
    [p \in 1..Cardinality(I) |->
        s[CHOOSE i \in I : Cardinality({j \in I : j <= i}) = p]]

\* The elements of s in order of first occurrence.
Unique(s) == SubseqAt(s, {i \in DOMAIN s : \A j \in 1..(i - 1) : s[j] # s[i]})

\* The concatenation of the sequences s[1], s[2], ...
RECURSIVE Flatten(_)
Flatten(s) == IF s = <<>> THEN <<>> ELSE Head(s) \o Flatten(Tail(s))

\* A stable ascending sort of s by keys[i], the key of s[i] (Python's sorted,
\* list.sort and pandas sort_values order rows by key; ties keep their order).
StableSort(s, keys) ==
    LET n == Len(s)
        pos(i) == 1 + Cardinality({j \in 1..n : \/ keys[j] < keys[i]
                                                \/ keys[j] = keys[i] /\ j < i})
        placed == {<<pos(i), i>> : i \in 1..n}
    IN [p \in 1..n |-> s[(CHOOSE pi \in placed : pi[1] = p)[2]]]

\* Every sequence that lists the elements of S once.
AllOrders(S) ==
    {s \in [1..Cardinality(S) -> S] : \A i, j \in DOMAIN s : i # j => s[i] # s[j]}

\* The elements of S in ascending order (Python's sorted on a set).
RECURSIVE Ascending(_)
Ascending(S) ==
    IF S = {} THEN <<>> ELSE <<Min(S)>> \o Ascending(S \ {Min(S)})

\* The orders in which a Python set of account strings may be iterated.  The
\* order follows the strings' hashes, which differ from process to process;
\* sets larger than MaxPermSet are iterated in two of their orders only.
SetOrders(S) ==
    IF Cardinality(S) <= MaxPermSet THEN AllOrders(S)
    ELSE {Ascending(S), Reverse(Ascending(S))}

----------------------------------------------------------------------------
(* build_graph: the MultiDiGraph of the rows *)

Tx(s, r, t) == [sender |-> s, receiver |-> r, timestamp |-> t]

\* G.nodes(): add_edge(u, v) inserts u, then v, at their first appearance.
GraphNodes(df) ==
    Unique([k \in 1..(2 * Len(df)) |->
               IF k % 2 = 1 THEN df[(k + 1) \div 2].sender ELSE df[k \div 2].receiver])

\* G.adj[u]: the receivers of u's rows at their first appearance.
GraphSucc(df, u) ==
    LET FromU(t) == t.sender = u
        rows == SelectSeq(df, FromU)
    IN Unique([i \in DOMAIN rows |-> rows[i].receiver])

\* MultiDiGraph degrees: every row counts.
in_degree(df, n) == Cardinality({i \in DOMAIN df : df[i].receiver = n})

out_degree(df, n) == Cardinality({i \in DOMAIN df : df[i].sender = n})

----------------------------------------------------------------------------
(* detect_cycles *)

\* nx.DiGraph(G): parallel edges collapse.
SimpleEdges(df) == {<<df[i].sender, df[i].receiver>> : i \in DOMAIN df}

\* DiGraph.degree within the node set N: in + out, a self-loop counts twice.
SimpleDegree(E, N, n) ==
    Cardinality({e \in E : e[1] = n /\ e[2] \in N})
    + Cardinality({e \in E : e[2] = n /\ e[1] \in N})

\* nx.k_core(G_simple, k): the largest node set in which every degree is >= k.
RECURSIVE k_core_nodes(_, _, _)
k_core_nodes(E, N, k) ==
    LET keep == {n \in N : SimpleDegree(E, N, n) >= k}
    IN IF keep = N THEN N ELSE k_core_nodes(E, keep, k)

HasSelfLoop(E) == \E e \in E : e[1] = e[2]

SearchNodes_3core(df) ==
    LET E == SimpleEdges(df)
        N == Range(GraphNodes(df))
    IN IF HasSelfLoop(E) THEN N ELSE k_core_nodes(E, N, K_CORE + 1)

\* The nodes of G_search: the 2-core, or (k_core raises on a graph with
\* self-loops, and the bare except takes over) all of G_simple.
SearchNodes(df) ==
    LET E == SimpleEdges(df)
        N == Range(GraphNodes(df))
    IN IF HasSelfLoop(E) THEN N ELSE k_core_nodes(E, N, K_CORE)

\* The orders in which G_search.nodes() may iterate.  G_simple iterates in
\* insertion order; the subgraph view does so too unless its node filter is
\* less than half the graph, when it iterates the filter's set.
SearchNodeOrders(df) ==
    LET all == GraphNodes(df)
        core == SearchNodes(df)
        InCore(n) == n \in core
    IN IF HasSelfLoop(SimpleEdges(df)) THEN {all}
       ELSE IF 2 * Cardinality(core) < Len(all) THEN SetOrders(core)
       ELSE {SelectSeq(all, InCore)}

\* list(G_search.neighbors(current_node))
SearchNeighbors(df, core, u) ==
    LET InCore(n) == n \in core
    IN SelectSeq(GraphSucc(df, u), InCore)

\* The normalisation of a closed path: rotate to its smallest node.
Canonical(cycle) ==
    LET min_node == Min(Range(cycle))
        min_idx == CHOOSE i \in DOMAIN cycle :
                      /\ cycle[i] = min_node
                      /\ \A j \in 1..(i - 1) : cycle[j] # min_node
    IN SubSeq(cycle, min_idx, Len(cycle)) \o SubSeq(cycle, 1, min_idx - 1)

ClosesCycle_from2(depth) == 2 <= depth /\ depth <= MAX_CYCLE_LEN

\* The test that closes a path into a cycle.
ClosesCycle(depth) == MIN_CYCLE_LEN <= depth /\ depth <= MAX_CYCLE_LEN

\* The test that lets the search step to a neighbour.
MayExtend(neighbor, path) == neighbor \notin Range(path)

\* dfs(start_node, current_node, path, depth), with depth = Len(path): the
\* canonical forms of the paths it closes, in the order it closes them.  adj[u]
\* is list(G_search.neighbors(u)).
RECURSIVE dfs(_, _, _)
dfs(adj, start_node, path) ==
    IF Len(path) > MAX_DEPTH THEN <<>>
    ELSE LET neighbors == adj[path[Len(path)]]
             visit(neighbor) ==
                 IF neighbor = start_node
                 THEN IF ClosesCycle(Len(path)) THEN <<Canonical(path)>> ELSE <<>>
                 ELSE IF MayExtend(neighbor, path)
                      THEN dfs(adj, start_node, Append(path, neighbor))
                      ELSE <<>>
         IN Flatten([i \in DOMAIN neighbors |-> visit(neighbors[i])])

\* sorted(list(G_search.nodes()), key=degree), from the iteration order given.
StartOrder(df, node_iter) ==
    LET E == SimpleEdges(df)
        core == Range(node_iter)
    IN StableSort(node_iter,
                  [i \in DOMAIN node_iter |-> SimpleDegree(E, core, node_iter[i])])

\* cycles_found: a closed path is appended unless its canonical form is in
\* seen_cycles, so the list is the closed paths at their first occurrence.
detect_cycles(df, node_iter) ==
    LET core == Range(node_iter)
        adj == [u \in core |-> SearchNeighbors(df, core, u)]
        nodes == StartOrder(df, node_iter)
    IN Unique(Flatten([i \in DOMAIN nodes |-> dfs(adj, nodes[i], <<nodes[i]>>)]))

----------------------------------------------------------------------------
(* analyze: ring consolidation *)

Overlaps(current, other) == current \cap other # {}

\* One pass of the for loop over cycle_sets: current grows as it goes.
RECURSIVE merge_pass(_, _, _, _)
merge_pass(current, cycle_sets, rest, merged) ==
    IF cycle_sets = <<>> THEN [current |-> current, rest |-> rest, merged |-> merged]
    ELSE LET other == Head(cycle_sets)
         IN IF Overlaps(current, other)
            THEN merge_pass(current \cup other, Tail(cycle_sets), rest, TRUE)
            ELSE merge_pass(current, Tail(cycle_sets), Append(rest, other), merged)

merge_loop_once(current, cycle_sets) ==
    LET p == merge_pass(current, cycle_sets, <<>>, FALSE)
    IN [current |-> p.current, rest |-> p.rest]

\* while merged: ... , from merged = True.
RECURSIVE merge_loop(_, _)
merge_loop(current, cycle_sets) ==
    LET p == merge_pass(current, cycle_sets, <<>>, FALSE)
    IN IF p.merged THEN merge_loop(p.current, p.rest)
       ELSE [current |-> p.current, rest |-> p.rest]

\* while cycle_sets: current = cycle_sets.pop(0); ...; merged_rings.append(current)
RECURSIVE merge_rings(_)
merge_rings(cycle_sets) ==
    IF cycle_sets = <<>> THEN <<>>
    ELSE LET m == merge_loop(Head(cycle_sets), Tail(cycle_sets))
         IN <<m.current>> \o merge_rings(m.rest)

\* f"RING_{idx+1:03d}"
RingId(idx) == <<"RING", idx + 1>>

RiskScore_unscaled(ring_nodes) == MinOf(999, 800 + 10 * Cardinality(ring_nodes))

\* round(min(99.9, 80 + len(ring_nodes) * 2), 1), in tenths.
RiskScore(ring_nodes) == MinOf(999, 800 + 20 * Cardinality(ring_nodes))

\* rings_info; member_accounts is list(ring_nodes), kept as the set it lists.
RingsInfo(merged_rings) ==
    [idx \in DOMAIN merged_rings |->
        [ring_id |-> RingId(idx - 1),
         member_accounts |-> merged_rings[idx],
         pattern_type |-> "cycle",
         risk_score |-> RiskScore(merged_rings[idx])]]

\* ring_map: a node in several rings keeps the id written last.
RingMap(merged_rings) ==
    LET members == UNION Range(merged_rings)
        last(n) == CHOOSE i \in DOMAIN merged_rings :
                      /\ n \in merged_rings[i]
                      /\ \A j \in DOMAIN merged_rings : n \in merged_rings[j] => j <= i
    IN [n \in members |-> RingId(last(n) - 1)]

----------------------------------------------------------------------------
(* analyze_smurfing *)

\* df.sort_values('timestamp')
SortByTimestamp(df) == StableSort(df, [i \in DOMAIN df |-> df[i].timestamp])

InWindow_strict(rows, i, j) ==
    j >= i /\ rows[j].timestamp < rows[i].timestamp + WINDOW_HOURS

\* The rows of the window that starts at row i of an account's rows.
InWindow(rows, i, j) == j >= i /\ rows[j].timestamp <= rows[i].timestamp + WINDOW_HOURS

\* The other party of a row: its sender in the fan-in scan, else its receiver.
Counterparty(row, fan_in) == IF fan_in THEN row.sender ELSE row.receiver

\* The scan of one account's rows (time-sorted): some window, started at one
\* of the rows, holds enough distinct counterparties.
WindowScan(rows, fan_in) ==
    /\ ~ (Len(rows) < MIN_GROUP_ROWS)
    /\ \E i \in DOMAIN rows :
          Cardinality({Counterparty(rows[j], fan_in) :
                          j \in {k \in DOMAIN rows : InWindow(rows, i, k)}})
             >= MIN_COUNTERPARTIES

analyze_smurfing(df) ==
    LET df_sorted == SortByTimestamp(df)
        receivers == {df[i].receiver : i \in DOMAIN df}
        senders == {df[i].sender : i \in DOMAIN df}
        group_in(a) == LET Test(t) == t.receiver = a IN SelectSeq(df_sorted, Test)
        group_out(a) == LET Test(t) == t.sender = a IN SelectSeq(df_sorted, Test)
    IN [fan_in |-> {a \in receivers : WindowScan(group_in(a), TRUE)},
        fan_out |-> {a \in senders : WindowScan(group_out(a), FALSE)}]

----------------------------------------------------------------------------
(* detect_layered_shell *)

IsShell_any_total(d_in, d_out) == d_in > 0 /\ d_out > 0

IsShell(d_in, d_out) == d_in > 0 /\ d_out > 0 /\ d_in + d_out <= SHELL_MAX_TOTAL

detect_layered_shell(df) ==
    {n \in Range(GraphNodes(df)) : IsShell(in_degree(df, n), out_degree(df, n))}

----------------------------------------------------------------------------
(* check_high_velocity *)

\* pd.concat of the sender rows and the receiver rows, sorted by timestamp.
Involved(df) ==
    LET as_sender == [i \in DOMAIN df |-> [account |-> df[i].sender,
                                           timestamp |-> df[i].timestamp]]
        as_receiver == [i \in DOMAIN df |-> [account |-> df[i].receiver,
                                             timestamp |-> df[i].timestamp]]
    IN SortByTimestamp(as_sender \o as_receiver)

\* The keys of involved.groupby('account').
involved_accounts(involved) == [i \in DOMAIN involved |-> involved[i].account]

\* group['timestamp'].tolist() of one account's group.
GroupTimes(involved, account) ==
    LET Test(row) == row.account = account
        group == SelectSeq(involved, Test)
    IN [i \in DOMAIN group |-> group[i].timestamp]

BurstAt_strict(times, i) == times[i + MIN_TX - 1] - times[i] < LIMIT_HOURS

\* The span test on timestamps i .. i + min_tx - 1 of the sorted list.
BurstAt(times, i) == times[i + MIN_TX - 1] - times[i] <= LIMIT_HOURS

VelocityScan(times) ==
    /\ ~ (Len(times) < MIN_TX)
    /\ \E i \in 1..(Len(times) - MIN_TX + 1) : BurstAt(times, i)

check_high_velocity(df) ==
    LET involved == Involved(df)
    IN {a \in Range(involved_accounts(involved)) : VelocityScan(GroupTimes(involved, a))}

----------------------------------------------------------------------------
(* analyze: scoring *)

LEGIT_RATIO_NUM == 9
LEGIT_RATIO_DEN == 10

\* ratio > 0.9, for ratio = part / total_tx.
RatioAbove(part, total_tx) == LEGIT_RATIO_DEN * part > LEGIT_RATIO_NUM * total_tx

is_likely_legit_ratio_only(d_in, d_out) ==
    LET total_tx == d_in + d_out
    IN total_tx > 0 /\ (RatioAbove(d_in, total_tx) \/ RatioAbove(d_out, total_tx))

is_likely_legit(d_in, d_out) ==
    LET total_tx == d_in + d_out
    IN /\ total_tx > LEGIT_MIN_TOTAL
       /\ RatioAbove(d_in, total_tx) \/ RatioAbove(d_out, total_tx)

\* f"cycle_length_{length}"
CycleLabel(length) ==
    CASE length = 1 -> "cycle_length_1"
      [] length = 2 -> "cycle_length_2"
      [] length = 3 -> "cycle_length_3"
      [] length = 4 -> "cycle_length_4"
      [] length = 5 -> "cycle_length_5"
      [] length = 6 -> "cycle_length_6"
      [] OTHER -> "cycle_length_7_or_more"

\* The labels of a ring member: its cycles' lengths ascending, or "cycle".
CyclePatterns(account, cyc) ==
    LET account_cycle_lengths ==
            {Len(cyc[i]) : i \in {k \in DOMAIN cyc : account \in Range(cyc[k])}}
        sorted == IF account_cycle_lengths = {} THEN <<>>
                  ELSE Ascending(account_cycle_lengths)
    IN IF account_cycle_lengths # {}
       THEN [i \in DOMAIN sorted |-> CycleLabel(sorted[i])]
       ELSE <<"cycle">>

\* The guards of the five score contributions.
CycleApplies(account, rmap) == account \in DOMAIN rmap

FanInApplies(account, sm, legit) == account \in sm.fan_in /\ ~ legit

FanOutApplies(account, sm, legit) == account \in sm.fan_out /\ ~ legit

ShellApplies(account, sh) == account \in sh

VelocityApplies_unfiltered(account, vel, legit) == account \in vel

VelocityApplies(account, vel, legit) == account \in vel /\ ~ legit

\* One pass of the scoring loop's body: the entry of an account, capped.
AccountEntry(account, df, cyc, rmap, sm, sh, vel) ==
    LET legit == is_likely_legit(in_degree(df, account), out_degree(df, account))
        c == CycleApplies(account, rmap)
        fi == FanInApplies(account, sm, legit)
        fo == FanOutApplies(account, sm, legit)
        s == ShellApplies(account, sh)
        v == VelocityApplies(account, vel, legit)
        score == (IF c THEN SCORE_CYCLE ELSE 0) + (IF fi THEN SCORE_FAN_IN ELSE 0)
                 + (IF fo THEN SCORE_FAN_OUT ELSE 0) + (IF s THEN SCORE_SHELL ELSE 0)
                 + (IF v THEN SCORE_HIGH_VELOCITY ELSE 0)
        patterns == (IF c THEN CyclePatterns(account, cyc) ELSE <<>>)
                    \o (IF fi THEN <<"fan_in">> ELSE <<>>)
                    \o (IF fo THEN <<"fan_out">> ELSE <<>>)
                    \o (IF s THEN <<"shell_account">> ELSE <<>>)
                    \o (IF v THEN <<"high_velocity">> ELSE <<>>)
    IN [account_id |-> account,
        suspicion_score |-> MinOf(score, 100),
        detected_patterns |-> patterns,
        ring_id |-> IF account \in DOMAIN rmap THEN rmap[account] ELSE <<"None", 0>>]

\* suspicious_accounts.sort(key=score, reverse=True): stable, descending.
SortByScore(entries) ==
    StableSort(entries, [i \in DOMAIN entries |-> 0 - entries[i].suspicion_score])

\* The scoring loop over all_suspects in the iteration order iter, and the sort.
ScoreAccounts(iter, df, cyc, rmap, sm, sh, vel) ==
    LET entries == [i \in DOMAIN iter |-> AccountEntry(iter[i], df, cyc, rmap, sm, sh, vel)]
        Scored(e) == e.suspicion_score > 0
    IN SortByScore(SelectSeq(entries, Scored))

----------------------------------------------------------------------------
(* The handler *)

NoRun == [txs |-> <<>>, suspicious_accounts |-> <<>>]

Received(df) ==
    /\ pc = "received"
    /\ txs = df
    /\ cycles = <<>>
    /\ rings_info = <<>>
    /\ ring_map = <<>>
    /\ smurfing = [fan_in |-> {}, fan_out |-> {}]
    /\ shells = {}
    /\ velocity_suspects = {}
    /\ suspicious_accounts = <<>>
    /\ runs = 0
    /\ prev = NoRun

\* all_suspects
AllSuspects(rmap, sm, sh, vel) ==
    DOMAIN rmap \cup sm.fan_in \cup sm.fan_out \cup sh \cup vel

\* POST /analyze, from the parsed rows to the response.  Each local of the
\* handler is bound once, in the order the handler assigns it.
Analyze ==
    /\ pc = "received"
    /\ \E node_iter \in SearchNodeOrders(txs) :
       \E cyc \in {detect_cycles(txs, node_iter)} :
       \E merged_rings \in {merge_rings([i \in DOMAIN cyc |-> Range(cyc[i])])} :
       \E rmap \in {RingMap(merged_rings)} :
       \E sm \in {analyze_smurfing(txs)} :
       \E sh \in {detect_layered_shell(txs)} :
       \E vel \in {check_high_velocity(txs)} :
       \E iter \in SetOrders(AllSuspects(rmap, sm, sh, vel)) :
          /\ cycles' = cyc
          /\ rings_info' = RingsInfo(merged_rings)
          /\ ring_map' = rmap
          /\ smurfing' = sm
          /\ shells' = sh
          /\ velocity_suspects' = vel
          /\ suspicious_accounts' = ScoreAccounts(iter, txs, cyc, rmap, sm, sh, vel)
    /\ pc' = "done"
    /\ runs' = runs + 1
    /\ UNCHANGED <<txs, prev>>

\* The orders in which the same rows are sent again.
Reorderings(df) ==
    {df, Reverse(df)}
    \cup {SubSeq(df, k + 1, Len(df)) \o SubSeq(df, 1, k) : k \in 1..(Len(df) - 1)}

\* A second request with the rows of the first, in the same or another order.
Resubmit ==
    /\ pc = "done"
    /\ runs < MaxRuns
    /\ \E df \in Reorderings(txs) : txs' = df
    /\ prev' = [txs |-> txs, suspicious_accounts |-> suspicious_accounts]
    /\ pc' = "received"
    /\ cycles' = <<>>
    /\ rings_info' = <<>>
    /\ ring_map' = <<>>
    /\ smurfing' = [fan_in |-> {}, fan_out |-> {}]
    /\ shells' = {}
    /\ velocity_suspects' = {}
    /\ suspicious_accounts' = <<>>
    /\ UNCHANGED runs

----------------------------------------------------------------------------
(* Inputs: transaction graphs made of up to three directed rings *)

\* The rows a -> a+1 -> ... -> b -> a (b = a: a self-loop), or their reverse.
RingRows(a, b, forward) ==
    [i \in 1..(b - a + 1) |->
        LET u == a + i - 1
            v == IF u = b THEN a ELSE u + 1
        IN IF forward THEN Tx(u, v, 0) ELSE Tx(v, u, 0)]

Spans == {<<a, b>> \in (1..NumAccounts) \X (1..NumAccounts) : a <= b}

\* The spans of three accounts, and the empty span.
ShortSpans == {<<a, a + 2>> : a \in 1..(NumAccounts - 2)} \cup {<<1, 0>>}

\* The rows a -> a+1 -> ... -> b of an open chain.
ChainRows(a, b) == [i \in 1..(b - a) |-> Tx(a + i - 1, a + i, 0)]

\* Two rings, the second in either direction, then a ring or a chain of three.
GraphInputs ==
    {RingRows(s1[1], s1[2], TRUE) \o RingRows(s2[1], s2[2], d2)
       \o (IF closed THEN RingRows(s3[1], s3[2], TRUE) ELSE ChainRows(s3[1], s3[2])) :
        s1 \in Spans, s2 \in Spans, d2 \in BOOLEAN, s3 \in ShortSpans, closed \in BOOLEAN}

Init == \E df \in GraphInputs : Received(df)

Next == Analyze

Spec == Init /\ [][Next]_vars

----------------------------------------------------------------------------
(* Inputs: one hub account and its counterparties *)

Hub == Min(1..NumAccounts)

\* A row between the hub and a counterparty, towards the hub or away from it.
HubRow(inward, cp, t) == IF inward THEN Tx(cp, Hub, t) ELSE Tx(Hub, cp, t)

\* The rows hub -> p -> q -> hub.
HubRing(p, q) == <<Tx(Hub, p, 0), Tx(p, q, 0), Tx(q, Hub, 0)>>

MaybeReverse(df, reversed) == IF reversed THEN Reverse(df) ELSE df

\* High-volume hubs: n_main rows in one direction, from n_cp counterparties in
\* turn and gap hours apart, n_back rows the other way, and possibly a ring
\* through the hub.
LegitInputs ==
    {MaybeReverse(
        [i \in 1..n_main |-> HubRow(inward, 2 + ((i - 1) % n_cp), (i - 1) * gap)]
        \o [j \in 1..n_back |-> HubRow(~ inward, 2 + ((j - 1) % n_cp), 0)]
        \o (IF ring THEN HubRing(2 + n_cp, 3 + n_cp) ELSE <<>>),
        reversed) :
        n_cp \in (MIN_COUNTERPARTIES - 1)..(MIN_COUNTERPARTIES + ExtraRows),
        n_main \in ((LEGIT_MIN_TOTAL - 2)..(LEGIT_MIN_TOTAL + 2)) \cup {LEGIT_MIN_TOTAL + 7},
        n_back \in 0..MaxBack,
        gap \in {0, 8, 18, 100},
        inward \in BOOLEAN, ring \in BOOLEAN, reversed \in BOOLEAN}

InitLegit == \E df \in LegitInputs : Received(df)

SpecLegit == InitLegit /\ [][Next]_vars

\* Timestamps that do not decrease: 0 up to row c1, t1 up to row c2, then t2.
StepTime(i, c1, c2, t1, t2) == IF i <= c1 THEN 0 ELSE IF i <= c2 THEN t1 ELSE t2

StepPairs == {<<1, WINDOW_HOURS>>, <<1, WINDOW_HOURS + 1>>,
              <<WINDOW_HOURS, WINDOW_HOURS + 1>>, <<WINDOW_HOURS, 2 * WINDOW_HOURS>>,
              <<WINDOW_HOURS + 1, 2 * WINDOW_HOURS + 1>>}

\* Smurfing hubs: n rows, each with a counterparty of its own except row dup,
\* which repeats that of a neighbour row.
SmurfInputs ==
    {MaybeReverse(
        [i \in 1..n |->
            HubRow(inward,
                   IF i = dup THEN (IF i = 1 THEN 3 ELSE 2) ELSE 1 + i,
                   StepTime(i, c1, c2, tt[1], tt[2]))],
        reversed) :
        n \in (MIN_COUNTERPARTIES - 1)..(MIN_COUNTERPARTIES + ExtraRows),
        dup \in 0..(MIN_COUNTERPARTIES + ExtraRows),
        c1 \in 0..2, c2 \in (MIN_COUNTERPARTIES - 2)..MIN_COUNTERPARTIES,
        tt \in StepPairs,
        inward \in BOOLEAN, reversed \in BOOLEAN}

InitSmurf == \E df \in SmurfInputs : Received(df)

SpecSmurf == InitSmurf /\ [][Next]_vars

\* The burst scenario: account x receives once from each of 10 other accounts,
\* at hour lo up to row c and hour hi after it, lo and hi within 10 hours.
BurstInputs ==
    {MaybeReverse(
        LET others == Ascending((1..(MIN_COUNTERPARTIES + 1)) \ {x})
        IN [i \in 1..MIN_COUNTERPARTIES |-> Tx(others[i], x, IF i <= c THEN lh[1] ELSE lh[2])],
        reversed) :
        x \in 1..(MIN_COUNTERPARTIES + 1),
        c \in 0..MIN_COUNTERPARTIES,
        lh \in {<<0, 0>>, <<0, 10>>, <<10, 0>>, <<3, 7>>},
        reversed \in BOOLEAN}

InitBurst == \E df \in BurstInputs : Received(df)

SpecBurst == InitBurst /\ [][Next]_vars

\* Velocity: n rows of the hub, sent and received in turn, row self a
\* transaction of the hub with itself.
VelocityInputs ==
    {MaybeReverse(
        [i \in 1..n |->
            LET t == StepTime(i, c1, c2, tt[1], tt[2])
            IN IF i = self THEN Tx(Hub, Hub, t)
               ELSE HubRow((i % 2 = 0) = even_in, 1 + i, t)],
        reversed) :
        n \in (MIN_TX - 2)..(MIN_TX + ExtraRows),
        self \in 0..(MIN_TX + ExtraRows),
        c1 \in 0..(MIN_TX + ExtraRows), c2 \in 0..(MIN_TX + ExtraRows),
        tt \in StepPairs,
        even_in \in BOOLEAN, reversed \in BOOLEAN}

InitVelocity == \E df \in VelocityInputs : Received(df)

SpecVelocity == InitVelocity /\ [][Next]_vars

\* The triangle scenario: a -> b, b -> c, c -> a and nothing else, at any hours.
TriangleInputs ==
    {<<Tx(a, b, ta), Tx(b, c, tb), Tx(c, a, tc)>> :
        a \in 1..NumAccounts, b \in 1..NumAccounts, c \in 1..NumAccounts,
        ta \in {0, 100}, tb \in {0, 100}, tc \in {0, 100}}

InitTriangle ==
    \E df \in TriangleInputs :
       /\ Cardinality({df[1].sender, df[2].sender, df[3].sender}) = 3
       /\ Received(df)

SpecTriangle == InitTriangle /\ [][Next]_vars

\* Hubs that send and receive: n_in rows towards the hub and n_out rows away
\* from it, gap hours apart, the rows away to the senders themselves or to
\* other accounts, possibly a second row from the first sender, a transaction
\* of the hub with itself and a ring through the hub.
HubCounts == (0..SHELL_MAX_TOTAL)
             \cup ((MIN_COUNTERPARTIES - 1)..(MIN_COUNTERPARTIES + ExtraRows))

MixedInputs ==
    {MaybeReverse(
        [i \in 1..n_in |-> HubRow(TRUE, 1 + i, (i - 1) * gap)]
        \o [j \in 1..n_out |->
               HubRow(FALSE,
                      IF shared THEN 1 + j ELSE 1 + MIN_COUNTERPARTIES + ExtraRows + j,
                      (j - 1) * gap)]
        \o (IF again THEN <<HubRow(TRUE, 1 + Hub, 0)>> ELSE <<>>)
        \o (IF self THEN <<Tx(Hub, Hub, 0)>> ELSE <<>>)
        \o (IF ring THEN HubRing(2 * (MIN_COUNTERPARTIES + ExtraRows) + 2,
                                 2 * (MIN_COUNTERPARTIES + ExtraRows) + 3)
            ELSE <<>>),
        reversed) :
        n_in \in HubCounts, n_out \in HubCounts,
        gap \in {0, 8, 100},
        shared \in BOOLEAN, again \in BOOLEAN, self \in BOOLEAN, ring \in BOOLEAN,
        reversed \in BOOLEAN}

InitMixed ==
    \E df \in MixedInputs :
       /\ df # <<>>
       /\ Received(df)

SpecMixed == InitMixed /\ [][Next]_vars

\* Requests sent twice: two rings of three accounts each.
RerunInputs ==
    {RingRows(s1[1], s1[2], TRUE) \o RingRows(s2[1], s2[2], d2) :
        s1 \in ShortSpans \ {<<1, 0>>}, s2 \in ShortSpans \ {<<1, 0>>}, d2 \in BOOLEAN}

InitRerun == \E df \in RerunInputs : Received(df)

NextRerun == Analyze \/ Resubmit

SpecRerun == InitRerun /\ [][NextRerun]_vars

----------------------------------------------------------------------------
(* Cycle detection: what is returned *)

Done == pc = "done"

NextOnCycle(c, j) == c[(j % Len(c)) + 1]

\* C1: every cycle detect_cycles returns lists 3 to 5 accounts, none twice, and
\* each account is followed (the last by the first) by one it has sent a
\* transaction to; so a self-loop or a pair of opposite edges gives no cycle.
C1_CyclesWellFormed ==
    Done =>
       \A i \in DOMAIN cycles :
          LET c == cycles[i]
          IN /\ 3 <= Len(c) /\ Len(c) <= 5
             /\ \A j, k \in DOMAIN c : j # k => c[j] # c[k]
             /\ \A j \in DOMAIN c :
                   \E t \in DOMAIN txs : /\ txs[t].sender = c[j]
                                         /\ txs[t].receiver = NextOnCycle(c, j)

\* A graph with a self-loop and a pair of opposite edges, and a cycle of 3 and
\* one of 5 returned.
C1_Witness ==
    /\ Done
    /\ \E t \in DOMAIN txs : txs[t].sender = txs[t].receiver
    /\ \E t, u \in DOMAIN txs : /\ txs[t].sender = txs[u].receiver
                                /\ txs[t].receiver = txs[u].sender
                                /\ txs[t].sender # txs[t].receiver
    /\ \E i, j \in DOMAIN cycles : Len(cycles[i]) = 3 /\ Len(cycles[j]) = 5

\* The simple directed paths of k accounts that start at their smallest account.
RECURSIVE MinFirstPaths(_, _, _)
MinFirstPaths(E, N, k) ==
    IF k = 1 THEN {<<n>> : n \in N}
    ELSE UNION {{Append(p, v) : v \in {w \in N : /\ <<p[Len(p)], w>> \in E
                                                 /\ w > p[1]
                                                 /\ w \notin Range(p)}} :
                p \in MinFirstPaths(E, N, k - 1)}

\* The simple directed cycles of 3 to 5 accounts of the simplified graph, each
\* as its rotation that starts at the smallest account.
SimpleCycles(df) ==
    LET E == SimpleEdges(df)
        N == Range(GraphNodes(df))
    IN UNION {{p \in MinFirstPaths(E, N, k) : <<p[k], p[1]>> \in E} : k \in 3..5}

\* C2: detect_cycles returns every simple directed cycle of 3, 4 or 5 accounts
\* of the simplified graph exactly once, rotated to start at its smallest
\* account; the restriction of the search to the 2-core loses none.
C2_CompleteNoDuplicates ==
    Done =>
       /\ Range(cycles) = SimpleCycles(txs)
       /\ \A i, j \in DOMAIN cycles : i # j => cycles[i] # cycles[j]

\* The 2-core left accounts out, and cycles of 3, 4 and 5 accounts were returned.
C2_Witness ==
    /\ Done
    /\ ~ HasSelfLoop(SimpleEdges(txs))
    /\ SearchNodes(txs) # Range(GraphNodes(txs))
    /\ \A k \in 3..5 : \E i \in DOMAIN cycles : Len(cycles[i]) = k

----------------------------------------------------------------------------
(* Ring consolidation *)

RingMembers == {rings_info[i].member_accounts : i \in DOMAIN rings_info}

\* The cycles linked to those of I by chains of cycles that share an account.
RECURSIVE LinkedCycles(_)
LinkedCycles(I) ==
    LET J == I \cup {j \in DOMAIN cycles :
                        \E i \in I : Range(cycles[i]) \cap Range(cycles[j]) # {}}
    IN IF J = I THEN I ELSE LinkedCycles(J)

InSameRing(i, j) ==
    \E r \in DOMAIN rings_info : /\ Range(cycles[i]) \subseteq rings_info[r].member_accounts
                                 /\ Range(cycles[j]) \subseteq rings_info[r].member_accounts

\* C3: the rings of fraud_rings partition the accounts that lie on a detected
\* cycle: their member sets are pairwise disjoint, cover exactly those
\* accounts, hold each cycle whole, and put two cycles together exactly when
\* a chain of cycles sharing accounts links them.
C3_RingPartition ==
    Done =>
       /\ \A r, q \in DOMAIN rings_info :
             r # q => rings_info[r].member_accounts \cap rings_info[q].member_accounts = {}
       /\ UNION RingMembers = UNION {Range(cycles[i]) : i \in DOMAIN cycles}
       /\ \A i \in DOMAIN cycles : InSameRing(i, i)
       /\ \A i, j \in DOMAIN cycles : InSameRing(i, j) <=> j \in LinkedCycles({i})

\* Two cycles without a common account were merged into one ring through a
\* cycle found after both.
C3_Witness ==
    /\ Done
    /\ \E i, j, k \in DOMAIN cycles :
          /\ i < j /\ j < k
          /\ Range(cycles[i]) \cap Range(cycles[j]) = {}
          /\ Range(cycles[i]) \cap Range(cycles[k]) # {}
          /\ Range(cycles[j]) \cap Range(cycles[k]) # {}
          /\ InSameRing(i, j)

----------------------------------------------------------------------------
(* Scoring *)

Accounts == Range(GraphNodes(txs))

Received_by(a) == Cardinality({k \in DOMAIN txs : txs[k].receiver = a})

Sent_by(a) == Cardinality({k \in DOMAIN txs : txs[k].sender = a})

\* Total degree above 20, and more than nine tenths of it in one direction.
LikelyLegit(a) ==
    LET total == Received_by(a) + Sent_by(a)
    IN /\ total > 20
       /\ 10 * Received_by(a) > 9 * total \/ 10 * Sent_by(a) > 9 * total

EntriesOf(a) == {k \in DOMAIN suspicious_accounts : suspicious_accounts[k].account_id = a}

CycleLabelsOf(a) ==
    {CycleLabel(Len(cycles[i])) : i \in {k \in DOMAIN cycles : a \in Range(cycles[k])}}

\* C4: an account with total degree above 20 and an in- or out-share above 0.9
\* gets no points and no label for fan_in, fan_out or high_velocity, whatever
\* the detectors flagged and in whatever order the rows came; as a ring member
\* it still gets the 40 cycle points and its cycle_length_K labels.
C4_LegitSuppressed ==
    Done =>
       \A a \in Accounts :
          LikelyLegit(a) =>
             /\ \A k \in EntriesOf(a) :
                   LET e == suspicious_accounts[k]
                   IN /\ Range(e.detected_patterns)
                            \cap {"fan_in", "fan_out", "high_velocity"} = {}
                      /\ e.suspicion_score = (IF a \in DOMAIN ring_map THEN 40 ELSE 0)
                                             + (IF a \in shells THEN 20 ELSE 0)
             /\ a \in DOMAIN ring_map =>
                   \E k \in EntriesOf(a) :
                      /\ suspicious_accounts[k].suspicion_score = 40
                      /\ Range(suspicious_accounts[k].detected_patterns) = CycleLabelsOf(a)
                      /\ CycleLabelsOf(a) # {}

\* A likely legitimate ring member that the fan-in and the velocity detector
\* both flagged.
C4_Witness ==
    /\ Done
    /\ \E a \in Accounts : /\ LikelyLegit(a)
                           /\ a \in smurfing.fan_in
                           /\ a \in velocity_suspects
                           /\ a \in DOMAIN ring_map

----------------------------------------------------------------------------
(* Re-running a request *)

Rerun == Done /\ runs = 2

\* C5: the same rows in a permuted order give the same suspicious_accounts
\* set: the same score, patterns and ring_id for every account.
C5_SameAccountsAnyOrder ==
    Rerun => Range(suspicious_accounts) = Range(prev.suspicious_accounts)

----------------------------------------------------------------------------
(* The two scenarios *)

TriangleAsExpected(score, patterns) ==
    /\ Len(cycles) = 1
    /\ Len(cycles[1]) = 3
    /\ Len(rings_info) = 1
    /\ Cardinality(rings_info[1].member_accounts) = 3
    /\ rings_info[1].risk_score = 860
    /\ Len(suspicious_accounts) = 3
    /\ \A a \in Accounts :
          \E k \in EntriesOf(a) : /\ suspicious_accounts[k].suspicion_score = score
                                  /\ suspicious_accounts[k].detected_patterns = patterns

\* C6, as amended: for exactly the three transactions A->B, B->C, C->A the
\* pipeline reports one cycle of length 3, one ring of 3 members with
\* risk_score 86.0, and A, B, C each with suspicion_score 60 and the patterns
\* cycle_length_3 and shell_account.
C6_TriangleCycleAndShell ==
    Done => TriangleAsExpected(60, <<"cycle_length_3", "shell_account">>)

\* C6, as stated: ... each of A, B, C with suspicion_score 40 and the pattern
\* cycle_length_3.
C6_AsStated ==
    Done => TriangleAsExpected(40, <<"cycle_length_3">>)

\* The triangle was analysed and its three accounts are in ring RING_001.
C6_Witness ==
    /\ Done
    /\ Len(txs) = 3
    /\ Cardinality(DOMAIN ring_map) = 3
    /\ \A a \in Accounts : ring_map[a] = RingId(0) /\ a \in shells

BurstTarget == txs[1].receiver

BurstAsExpected(score, patterns) ==
    /\ BurstTarget \in smurfing.fan_in
    /\ ~ LikelyLegit(BurstTarget)
    /\ Len(suspicious_accounts) = 1
    /\ suspicious_accounts[1].account_id = BurstTarget
    /\ suspicious_accounts[1].suspicion_score = score
    /\ suspicious_accounts[1].detected_patterns = patterns

\* C7, as amended: when X receives one transaction from each of 10 distinct
\* accounts within 10 hours and nothing else happens, X is flagged fan_in and
\* high_velocity with suspicion_score 35 and is not treated as likely
\* legitimate; the 10 senders are not flagged at all.
C7_BurstFanInAndVelocity ==
    Done => BurstAsExpected(35, <<"fan_in", "high_velocity">>)

\* C7, as stated: ... X is flagged fan_in with suspicion_score 25 ...
C7_AsStated ==
    Done => BurstAsExpected(25, <<"fan_in">>)

\* The burst was analysed: ten rows within ten hours, the target flagged by
\* the fan-in and by the velocity detector.
C7_Witness ==
    /\ Done
    /\ Len(txs) = 10
    /\ \E k, m \in DOMAIN txs : txs[k].timestamp - txs[m].timestamp = 10
    /\ BurstTarget \in smurfing.fan_in \cap velocity_suspects

----------------------------------------------------------------------------
(* Windows *)

Hours == 0..(CHOOSE h \in {txs[k].timestamp : k \in DOMAIN txs} :
                \A k \in DOMAIN txs : txs[k].timestamp <= h)

\* The rows of the 72 hours that begin at hour start, both ends included.
WindowRows(start) ==
    {k \in DOMAIN txs : start <= txs[k].timestamp /\ txs[k].timestamp <= start + 72}

SendersTo(a, start) == {txs[k].sender : k \in {m \in WindowRows(start) : txs[m].receiver = a}}

ReceiversFrom(a, start) == {txs[k].receiver : k \in {m \in WindowRows(start) : txs[m].sender = a}}

\* C8: analyze_smurfing flags an account fan_in exactly when some 72-hour
\* window, both ends included, holds transactions it receives from at least 10
\* distinct senders, and fan_out exactly when some such window holds
\* transactions it sends to at least 10 distinct receivers.
C8_SmurfingIffWindow ==
    Done =>
       \A a \in Accounts :
          /\ a \in smurfing.fan_in <=> \E start \in Hours : Cardinality(SendersTo(a, start)) >= 10
          /\ a \in smurfing.fan_out <=> \E start \in Hours : Cardinality(ReceiversFrom(a, start)) >= 10

FirstHour(a) ==
    CHOOSE h \in Hours :
       /\ \E k \in DOMAIN txs : txs[k].timestamp = h /\ txs[k].receiver = a
       /\ \A k \in DOMAIN txs : txs[k].receiver = a => h <= txs[k].timestamp

\* An account flagged fan_in whose window from its first transaction holds
\* fewer than 10 senders, and whose qualifying window needs the row at its
\* very end.
C8_Witness ==
    /\ Done
    /\ \E a \in smurfing.fan_in :
          /\ Cardinality(SendersTo(a, FirstHour(a))) < 10
          /\ \A start \in Hours :
                Cardinality(SendersTo(a, start)) >= 10 =>
                   \E k \in DOMAIN txs : txs[k].receiver = a /\ txs[k].timestamp = start + 72

\* The timestamps of a in the window: one per row and role.
Participations(a, start) ==
    Cardinality({k \in WindowRows(start) : txs[k].sender = a})
    + Cardinality({k \in WindowRows(start) : txs[k].receiver = a})

\* C9: check_high_velocity flags an account exactly when some 72-hour window,
\* both ends included, holds at least 5 of its participation timestamps, a
\* transaction giving one per role the account plays in it.
C9_VelocityIffWindow ==
    Done =>
       \A a \in Accounts :
          a \in velocity_suspects <=> \E start \in Hours : Participations(a, start) >= 5

\* An account flagged with only four transactions, one of them with itself,
\* the first and the last exactly 72 hours apart.
C9_Witness ==
    /\ Done
    /\ \E a \in velocity_suspects :
          /\ Cardinality({k \in DOMAIN txs : txs[k].sender = a \/ txs[k].receiver = a}) = 4
          /\ \E k \in DOMAIN txs : txs[k].sender = a /\ txs[k].receiver = a
          /\ \E k, m \in DOMAIN txs : txs[k].timestamp - txs[m].timestamp = 72
          /\ \A k, m \in DOMAIN txs : txs[k].timestamp - txs[m].timestamp <= 72

----------------------------------------------------------------------------
(* Output order *)

\* C10: suspicious_accounts is in descending order of suspicion_score, and two
\* runs on the same input give the same sequence, whatever order the set of
\* suspects is iterated in.
C10_SortedAndRepeatable ==
    /\ Done =>
          \A k, m \in DOMAIN suspicious_accounts :
             k < m => suspicious_accounts[k].suspicion_score
                         >= suspicious_accounts[m].suspicion_score
    /\ Rerun /\ txs = prev.txs => suspicious_accounts = prev.suspicious_accounts

----------------------------------------------------------------------------
(* Shell accounts and the cap *)

\* The points that the labels of an entry stand for: 40 for its cycle labels
\* together, 25 for fan_in, 25 for fan_out, 20 for shell_account, 10 for
\* high_velocity.
PointsOfLabels(patterns) ==
    LET labels == Range(patterns)
        on_cycle == \E l \in labels :
                       l \notin {"fan_in", "fan_out", "shell_account", "high_velocity"}
    IN (IF on_cycle THEN 40 ELSE 0)
       + (IF "fan_in" \in labels THEN 25 ELSE 0)
       + (IF "fan_out" \in labels THEN 25 ELSE 0)
       + (IF "shell_account" \in labels THEN 20 ELSE 0)
       + (IF "high_velocity" \in labels THEN 10 ELSE 0)

ShellByDegree(a) ==
    Received_by(a) > 0 /\ Sent_by(a) > 0 /\ Received_by(a) + Sent_by(a) <= 3

\* C11: an account classified as shell (in-degree > 0, out-degree > 0, total
\* degree <= 3) is never flagged fan_in, fan_out or high_velocity; so the sum
\* of the points applied to any account is at most 100, the cap min(score, 100)
\* changes no score, and every emitted suspicion_score lies in (0, 100].
C11_ShellExclusiveCapIdle ==
    Done =>
       /\ \A a \in Accounts :
             /\ a \in shells <=> ShellByDegree(a)
             /\ ShellByDegree(a) =>
                   a \notin smurfing.fan_in \cup smurfing.fan_out \cup velocity_suspects
       /\ \A k \in DOMAIN suspicious_accounts :
             LET e == suspicious_accounts[k]
             IN /\ ShellByDegree(e.account_id) =>
                      Range(e.detected_patterns)
                         \cap {"fan_in", "fan_out", "high_velocity"} = {}
                /\ PointsOfLabels(e.detected_patterns) <= 100
                /\ e.suspicion_score = PointsOfLabels(e.detected_patterns)
                /\ 0 < e.suspicion_score /\ e.suspicion_score <= 100

\* An account on a cycle flagged fan_in, fan_out and high_velocity, its points
\* adding up to exactly 100, next to a shell account of total degree 3 and a
\* shell account that is a ring member.
C11_Witness ==
    /\ Done
    /\ \E k \in DOMAIN suspicious_accounts :
          /\ suspicious_accounts[k].suspicion_score = 100
          /\ {"fan_in", "fan_out", "high_velocity"}
                \subseteq Range(suspicious_accounts[k].detected_patterns)
          /\ suspicious_accounts[k].account_id \in DOMAIN ring_map
    /\ \E a \in shells : a \in DOMAIN ring_map
    /\ \E a \in shells : Received_by(a) + Sent_by(a) = 3

====
